---- MODULE Spec2Model ----
(***************************************************************************)
(* Model of the grid-trading controller of src/main.cpp: RiskManager,      *)
(* GridOrderManager and the per-tick function gridTrading driven by the    *)
(* polling loop of main.                                                   *)
(*                                                                         *)
(* Numbers.  Prices, grid levels and the grid spacing are integers counted *)
(* in half currency units, so the price 100.5 is written 201               *)
(* and the spacing 10 is 20.  Quantities are integers.  Every value the    *)
(* code computes by a division or from such a value (avgPrice, pnl,        *)
(* currentEquity, the ledger amounts) is an extended rational [n, d]:      *)
(* d > 0 is the exact fraction n/d in lowest terms, d = 0 is one of the    *)
(* three non-finite doubles +inf (n = 1), -inf (n = -1) and NaN (n = 0).   *)
(* Rounding error of binary floating point is not modelled.                *)
(***************************************************************************)
EXTENDS Integers, Sequences, FiniteSets, TLC

VARIABLES
    cfg,            \* the configuration read once by main (config.json)
    gridOrders,     \* GridOrderManager::gridOrders : level -> sequence of Order
    position,       \* GridOrderManager::position
    currentEquity,  \* RiskManager::currentEquity
    realizedPnL,    \* GridOrderManager::realizedPnL : id -> amount
    orderCounter,   \* the static counter of generateOrderId
    status,         \* "running", or "terminated" after an uncaught exception
    nTicks,         \* number of loop iterations (or direct calls) so far
    fills,          \* the fills applied by direct calls of updatePosition
    last            \* what the latest operation did (observation only)

vars == <<cfg, gridOrders, position, currentEquity, realizedPnL, orderCounter,
          status, nTicks, fills, last>>

(***************************************************************************)
(* Bounds of the model.                                                    *)
(***************************************************************************)
MaxTicks == 4
MaxCalls == 3

MaxPlanPrice == 30
MaxPlanSpacing == 6
MaxPlanCount == 2
MaxInvalidCalls == 2

(***************************************************************************)
(* Double arithmetic on extended rationals.                                *)
(***************************************************************************)
Abs(x) == IF x < 0 THEN -x ELSE x

RECURSIVE GCD(_, _)
GCD(a, b) == IF b = 0 THEN a ELSE GCD(b, a % b)

Norm(n, d) ==
    IF n = 0 THEN [n |-> 0, d |-> 1]
    ELSE LET g == GCD(Abs(n), d) IN [n |-> n \div g, d |-> d \div g]

I(x) == [n |-> x, d |-> 1]
NaN == [n |-> 0, d |-> 0]
PInf == [n |-> 1, d |-> 0]
NInf == [n |-> -1, d |-> 0]
Inf(s) == IF s > 0 THEN PInf ELSE NInf

IsNaN(a) == a.d = 0 /\ a.n = 0
IsInf(a) == a.d = 0 /\ a.n # 0
IsFinite(a) == a.d > 0
IsZero(a) == a.d > 0 /\ a.n = 0
Sign(a) == IF a.n > 0 THEN 1 ELSE IF a.n < 0 THEN -1 ELSE 0

\* a + b
NAdd(a, b) ==
    IF IsNaN(a) \/ IsNaN(b) THEN NaN
    ELSE IF IsInf(a) /\ IsInf(b) THEN (IF a.n = b.n THEN a ELSE NaN)
    ELSE IF IsInf(a) THEN a
    ELSE IF IsInf(b) THEN b
    ELSE Norm(a.n * b.d + b.n * a.d, a.d * b.d)

NNeg(a) == [n |-> -a.n, d |-> a.d]

\* a - b
NSub(a, b) == NAdd(a, NNeg(b))

\* a * b
NMul(a, b) ==
    IF IsNaN(a) \/ IsNaN(b) THEN NaN
    ELSE IF IsInf(a) \/ IsInf(b)
         THEN (IF IsZero(a) \/ IsZero(b) THEN NaN ELSE Inf(Sign(a) * Sign(b)))
    ELSE Norm(a.n * b.n, a.d * b.d)

\* a / b; a zero divisor is the +0.0 that x + (-x) yields
NDiv(a, b) ==
    IF IsNaN(a) \/ IsNaN(b) THEN NaN
    ELSE IF IsInf(a) THEN (IF IsInf(b) THEN NaN
                           ELSE Inf(Sign(a) * (IF Sign(b) < 0 THEN -1 ELSE 1)))
    ELSE IF IsInf(b) THEN I(0)
    ELSE IF IsZero(b) THEN (IF IsZero(a) THEN NaN ELSE Inf(Sign(a)))
    ELSE IF b.n > 0 THEN Norm(a.n * b.d, a.d * b.n)
    ELSE Norm(-(a.n * b.d), a.d * (-b.n))

\* a > b (false when either is NaN)
NGt(a, b) ==
    IF IsNaN(a) \/ IsNaN(b) THEN FALSE
    ELSE IF IsInf(a) \/ IsInf(b)
         THEN (IF a = b THEN FALSE
               ELSE IF a = PInf \/ b = NInf THEN TRUE ELSE FALSE)
    ELSE a.n * b.d > b.n * a.d

\* a == b (false when either is NaN)
NEq(a, b) == ~IsNaN(a) /\ ~IsNaN(b) /\ a = b

\* the quotient truncated as a cast to int would
RoundDiv_Truncate(p, s) ==
    IF p >= 0 THEN p \div s ELSE -((-p) \div s)

\* the quotient rounded to nearest with halves to even, as std::nearbyint would
RoundDiv_HalfEven(p, s) ==
    LET a == Abs(p)
        q == a \div s
        r == a % s
        n == IF 2 * r < s THEN q
             ELSE IF 2 * r > s THEN q + 1
             ELSE IF q % 2 = 0 THEN q ELSE q + 1
    IN IF p >= 0 THEN n ELSE -n

\* std::round of the quotient p / s (s > 0): halves round away from zero
RoundDiv(p, s) ==
    IF p >= 0 THEN (2 * p + s) \div (2 * s)
    ELSE -((2 * (-p) + s) \div (2 * s))

(***************************************************************************)
(* Configurations (config.json) and the prices the price source returns.   *)
(***************************************************************************)
Config(spacing, count, minQty, equity, maxPos) ==
    [gridSpacing |-> spacing, gridCount |-> count, minOrderQuantity |-> minQty,
     initialEquity |-> equity, maxPositionSize |-> maxPos]

Configs ==
    { Config(20, 1, 1, 2000, 5),    \* spacing 10, count 1, ample funds
      Config(20, 1, 1, 210, 5),     \* funds for one unit up to price 105
      Config(20, 1, 2, 2000, 1),    \* order size above the position limit
      Config(20, 1, 1, 2000, 1),    \* order size equal to the position limit
      Config(20, 2, 1, 2000, 5),    \* a five-level ladder
      Config(20, 0, 1, 2000, 5) }   \* a one-level ladder

\* 99.5, 100, 100.5, 105, 109.5, 110.5, 120.5
Prices == {199, 200, 201, 210, 219, 221, 241}

Sides == {"buy", "sell"}
Opposite(side) == IF side = "buy" THEN "sell" ELSE "buy"

(***************************************************************************)
(* The mutable state of the RiskManager and the GridOrderManager, as one   *)
(* record the operations transform.                                        *)
(***************************************************************************)
M == [gridOrders |-> gridOrders, position |-> position,
      currentEquity |-> currentEquity, realizedPnL |-> realizedPnL,
      orderCounter |-> orderCounter]

EmptyPosition == [quantity |-> 0, avgPrice |-> I(0), totalCost |-> 0,
                  unrealizedPnL |-> 0]

Order(id, s, p, q, g) ==
    [orderId |-> id, side |-> s, price |-> p, quantity |-> q, gridLevel |-> g,
     isOpen |-> TRUE]

SeqRange(s) == {s[i] : i \in DOMAIN s}

\* canPlaceOrder rejecting an order whose cost equals the equity
canPlaceOrder_CostEqual(m, side, quantity, price) ==
    IF quantity > cfg.maxPositionSize THEN FALSE
    ELSE IF ~NGt(m.currentEquity, I(quantity * price)) THEN FALSE
    ELSE TRUE

\* RiskManager::canPlaceOrder
canPlaceOrder(m, side, quantity, price) ==
    IF quantity > cfg.maxPositionSize THEN FALSE
    ELSE IF NGt(I(quantity * price), m.currentEquity) THEN FALSE
    ELSE TRUE

\* RiskManager::updateEquity (the drawdown warning only prints)
updateEquity(m, pnl) ==
    [m EXCEPT !.currentEquity = NAdd(@, pnl)]

\* generateOrderId reading the counter without storing the increment
generateOrderId_NoIncrement(m) ==
    [id |-> m.orderCounter + 1, m |-> m]

\* GridOrderManager::generateOrderId: the id "ORDER_<n>" is modelled as n
generateOrderId(m) ==
    [id |-> m.orderCounter + 1, m |-> [m EXCEPT !.orderCounter = @ + 1]]

\* realizedPnL[id] = pnl : std::map::operator[] inserts or overwrites
MapPut(f, k, v) == [x \in DOMAIN f \cup {k} |-> IF x = k THEN v ELSE f[x]]

\* updatePosition averaging without weighting the fill by its quantity
updatePosition_Unweighted(m, quantity, price, isBuy) ==
    IF isBuy
    THEN LET newQuantity == m.position.quantity + quantity
             avg == NDiv(NAdd(NMul(I(m.position.quantity), m.position.avgPrice),
                              I(price)),
                         I(newQuantity))
         IN [m EXCEPT !.position.avgPrice = avg,
                      !.position.quantity = newQuantity,
                      !.position.totalCost = @ + quantity * price]
    ELSE LET pnl == NMul(NSub(I(price), m.position.avgPrice), I(quantity))
             m1 == [m EXCEPT !.orderCounter = @ + 1,
                             !.position.quantity = @ - quantity,
                             !.realizedPnL =
                                 [x \in DOMAIN @ \cup {m.orderCounter + 1} |->
                                     IF x = m.orderCounter + 1 THEN pnl
                                     ELSE @[x]]]
         IN [m1 EXCEPT !.currentEquity = NAdd(@, pnl)]

\* GridOrderManager::updatePosition
updatePosition(m, quantity, price, isBuy) ==
    IF isBuy
    THEN LET newQuantity == m.position.quantity + quantity
             avg == NDiv(NAdd(NMul(I(m.position.quantity), m.position.avgPrice),
                              I(quantity * price)),
                         I(newQuantity))
         IN [m EXCEPT !.position.avgPrice = avg,
                      !.position.quantity = newQuantity,
                      !.position.totalCost = @ + quantity * price]
    ELSE LET pnl == NMul(NSub(I(price), m.position.avgPrice), I(quantity))
             g == generateOrderId(m)
             m1 == [g.m EXCEPT !.position.quantity = @ - quantity,
                               !.realizedPnL = MapPut(@, g.id, pnl)]
         IN updateEquity(m1, pnl)

\* push_back under the order's price instead of its grid level
PushOrder_AtPrice(book, gridLevel, order) ==
    [l \in DOMAIN book \cup {order.price} |->
        IF l = order.price
        THEN Append(IF order.price \in DOMAIN book THEN book[order.price]
                    ELSE <<>>, order)
        ELSE book[l]]

\* gridOrders[gridLevel].push_back(order)
PushOrder(book, gridLevel, order) ==
    [l \in DOMAIN book \cup {gridLevel} |->
        IF l = gridLevel
        THEN Append(IF gridLevel \in DOMAIN book THEN book[gridLevel] ELSE <<>>,
                    order)
        ELSE book[l]]

\* addOrder without the risk check
addOrder_NoRiskCheck(m, side, price, gridLevel) ==
    LET id == m.orderCounter + 1
        order == Order(id, side, price, cfg.minOrderQuantity, gridLevel)
        m1 == [m EXCEPT !.orderCounter = id,
                        !.gridOrders =
                            [l \in DOMAIN @ \cup {gridLevel} |->
                                IF l = gridLevel
                                THEN Append(IF gridLevel \in DOMAIN @
                                            THEN @[gridLevel] ELSE <<>>, order)
                                ELSE @[l]]]
    IN [ok |-> TRUE,
        m |-> updatePosition(m1, cfg.minOrderQuantity, price, side = "buy")]

\* GridOrderManager::addOrder: [ok |-> the value returned, m |-> the state after]
addOrder(m, side, price, gridLevel) ==
    IF ~canPlaceOrder(m, side, cfg.minOrderQuantity, price)
    THEN [ok |-> FALSE, m |-> m]
    ELSE LET g == generateOrderId(m)
             order == Order(g.id, side, price, cfg.minOrderQuantity, gridLevel)
             m1 == [g.m EXCEPT !.gridOrders = PushOrder(@, gridLevel, order)]
         IN [ok |-> TRUE,
             m |-> updatePosition(m1, cfg.minOrderQuantity, price, side = "buy")]

\* GridOrderManager::closeOrdersAtGrid
closeOrdersAtGrid(book, gridLevel) ==
    IF gridLevel \in DOMAIN book
    THEN [book EXCEPT ![gridLevel] =
             [i \in DOMAIN @ |-> [@[i] EXCEPT !.isOpen = FALSE]]]
    ELSE book

\* only the levels below the new ladder counted as missing
VanishedLevels_OnlyBelow(book, newGridLevels) ==
    {l \in DOMAIN book : \A i \in DOMAIN newGridLevels : l < newGridLevels[i]}

\* The levels updateGrids finds missing from the new ladder
VanishedLevels(book, newGridLevels) ==
    {l \in DOMAIN book : l \notin SeqRange(newGridLevels)}

\* updateGrids closing the orders of the levels it keeps as well
updateGrids_ClosesKept(book, newGridLevels) ==
    LET gone == VanishedLevels(book, newGridLevels)
    IN [book |-> [l \in DOMAIN book \ gone |-> closeOrdersAtGrid(book, l)[l]],
        erased |-> [l \in gone |-> closeOrdersAtGrid(book, l)[l]]]

\* updateGrids closing the vanished levels' orders without erasing the entries
updateGrids_NoErase(book, newGridLevels) ==
    LET gone == VanishedLevels(book, newGridLevels)
    IN [book |-> [l \in DOMAIN book |->
                    IF l \in gone THEN closeOrdersAtGrid(book, l)[l] ELSE book[l]],
        erased |-> [l \in gone |-> closeOrdersAtGrid(book, l)[l]]]

\* GridOrderManager::updateGrids: [book |-> the map after, erased |-> the entries
\* as closeOrdersAtGrid left them when they were erased]
updateGrids(book, newGridLevels) ==
    LET gone == VanishedLevels(book, newGridLevels)
    IN [book |-> [l \in DOMAIN book \ gone |-> book[l]],
        erased |-> [l \in gone |-> closeOrdersAtGrid(book, l)[l]]]

\* shouldPlaceOrderAtGrid comparing the side the wrong way round
shouldPlaceOrderAtGrid_WrongSide(book, gridLevel, side) ==
    IF gridLevel \notin DOMAIN book THEN TRUE
    ELSE ~ \E i \in DOMAIN book[gridLevel] :
             book[gridLevel][i].isOpen /\ book[gridLevel][i].side # side

\* GridOrderManager::shouldPlaceOrderAtGrid
shouldPlaceOrderAtGrid(book, gridLevel, side) ==
    IF gridLevel \notin DOMAIN book THEN TRUE
    ELSE ~ \E i \in DOMAIN book[gridLevel] :
             book[gridLevel][i].isOpen /\ book[gridLevel][i].side = side

\* baseGrid with the quotient rounded down
BaseGrid_Floor(currentPrice, gridSpacing) ==
    (currentPrice \div gridSpacing) * gridSpacing

\* gridTrading: baseGrid and the ladder gridLevels
BaseGrid(currentPrice, gridSpacing) ==
    RoundDiv(currentPrice, gridSpacing) * gridSpacing

ComputeGridLevels(currentPrice, gridSpacing, gridCount) ==
    LET baseGrid == BaseGrid(currentPrice, gridSpacing)
    IN [k \in 1..(2 * gridCount + 1) |->
           baseGrid + (k - 1 - gridCount) * gridSpacing]

\* the bracket test with both ends closed
InBracket_Closed(currentPrice, lowerGrid, upperGrid) ==
    currentPrice >= lowerGrid /\ currentPrice <= upperGrid

\* gridTrading: the bracket test of the scan
InBracket(currentPrice, lowerGrid, upperGrid) ==
    currentPrice > lowerGrid /\ currentPrice <= upperGrid

\* the tolerance test without the factor 0.1
NearGrid_FullSpacing(currentPrice, grid, gridSpacing) ==
    Abs(currentPrice - grid) < gridSpacing

\* std::abs(currentPrice - grid) < gridSpacing * 0.1
NearGrid(currentPrice, grid, gridSpacing) ==
    10 * Abs(currentPrice - grid) < gridSpacing

\* gridTrading: one iteration of the scan, for lowerGrid = gridLevels[i] and
\* upperGrid = gridLevels[i + 1].  st.signals records each signal the crossing
\* test produces, st.calls each call of addOrder with the state before and after.
ScanStep(st, currentPrice, gridLevels, i) ==
    LET lowerGrid == gridLevels[i]
        upperGrid == gridLevels[i + 1]
        Try(side, level) ==
            LET should == shouldPlaceOrderAtGrid(st.m.gridOrders, level, side)
                sig == [side |-> side, level |-> level, lower |-> lowerGrid,
                        upper |-> upperGrid, should |-> should]
                r == addOrder(st.m, side, currentPrice, level)
                call == [side |-> side, price |-> currentPrice, level |-> level,
                         ok |-> r.ok, pre |-> st.m, post |-> r.m]
            IN IF should
               THEN [m |-> r.m, signals |-> Append(st.signals, sig),
                     calls |-> Append(st.calls, call)]
               ELSE [st EXCEPT !.signals = Append(@, sig)]
    IN IF InBracket(currentPrice, lowerGrid, upperGrid)
       THEN IF NearGrid(currentPrice, lowerGrid, cfg.gridSpacing)
            THEN Try("buy", lowerGrid)
            ELSE IF NearGrid(currentPrice, upperGrid, cfg.gridSpacing)
                 THEN Try("sell", upperGrid)
                 ELSE st
       ELSE st

\* gridTrading: for (size_t i = 0; i < gridLevels.size() - 1; i++)
RECURSIVE Scan(_, _, _, _)
Scan(st, currentPrice, gridLevels, i) ==
    IF i > Len(gridLevels) - 1 THEN st
    ELSE Scan(ScanStep(st, currentPrice, gridLevels, i), currentPrice,
              gridLevels, i + 1)

\* What an operation leaves in `last`
Log(op, price, m) ==
    [op |-> op, price |-> price, spacing |-> cfg.gridSpacing,
     count |-> cfg.gridCount, side |-> "buy", quantity |-> 0, result |-> FALSE,
     gridLevels |-> <<>>, erased |-> <<>>, pre |-> m, afterGrids |-> m,
     post |-> m, signals |-> <<>>, calls |-> <<>>]

\* gridTrading once the price is fetched
gridTrading(m, currentPrice) ==
    LET gridLevels == ComputeGridLevels(currentPrice, cfg.gridSpacing,
                                        cfg.gridCount)
        u == updateGrids(m.gridOrders, gridLevels)
        m1 == [m EXCEPT !.gridOrders = u.book]
        st == Scan([m |-> m1, signals |-> <<>>, calls |-> <<>>], currentPrice,
                   gridLevels, 1)
    IN [m |-> st.m,
        log |-> [Log("tick", currentPrice, m) EXCEPT
                    !.gridLevels = gridLevels, !.erased = u.erased,
                    !.afterGrids = m1, !.post = st.m,
                    !.signals = st.signals, !.calls = st.calls]]

Store(m) ==
    /\ gridOrders' = m.gridOrders
    /\ position' = m.position
    /\ currentEquity' = m.currentEquity
    /\ realizedPnL' = m.realizedPnL
    /\ orderCounter' = m.orderCounter

(***************************************************************************)
(* The program: main's loop calling gridTrading.                           *)
(***************************************************************************)
InitWith(configs) ==
    /\ cfg \in configs
    /\ gridOrders = <<>>
    /\ position = EmptyPosition
    /\ currentEquity = I(cfg.initialEquity)
    /\ realizedPnL = <<>>
    /\ orderCounter = 0
    /\ status = "running"
    /\ nTicks = 0
    /\ fills = <<>>
    /\ last = [Log("init", 0, [gridOrders |-> <<>>, position |-> EmptyPosition,
                               currentEquity |-> I(cfg.initialEquity),
                               realizedPnL |-> <<>>, orderCounter |-> 0])
               EXCEPT !.op = "init"]

Init == InitWith(Configs)

\* One iteration of while (true) in which getCurrentPrice returns a price
Tick ==
    /\ status = "running"
    /\ nTicks < MaxTicks
    /\ \E currentPrice \in Prices :
          LET r == gridTrading(M, currentPrice)
          IN Store(r.m) /\ last' = r.log
    /\ nTicks' = nTicks + 1
    /\ UNCHANGED <<cfg, status, fills>>

\* The failures of getCurrentPrice that leave it as std::runtime_error: a
\* transport error, json::parse_error, std::invalid_argument of std::stod
CaughtFailures == {"curl", "parse_error", "invalid_argument"}

\* The failures that leave getCurrentPrice as another exception type:
\* json::type_error of response["price"].get<std::string>(), std::out_of_range
UncaughtFailures == {"type_error", "out_of_range"}

\* An iteration whose exception main catches: catch (const std::runtime_error&)
PriceFetchError ==
    /\ status = "running"
    /\ nTicks < MaxTicks
    /\ \E f \in CaughtFailures : last' = Log(f, 0, M)
    /\ nTicks' = nTicks + 1
    /\ UNCHANGED <<cfg, gridOrders, position, currentEquity, realizedPnL,
                   orderCounter, status, fills>>

\* An iteration whose exception no handler matches: std::terminate
PriceFetchFatal ==
    /\ status = "running"
    /\ nTicks < MaxTicks
    /\ \E f \in UncaughtFailures : last' = Log(f, 0, M)
    /\ status' = "terminated"
    /\ nTicks' = nTicks + 1
    /\ UNCHANGED <<cfg, gridOrders, position, currentEquity, realizedPnL,
                   orderCounter, fills>>

Next == Tick \/ PriceFetchError \/ PriceFetchFatal

Spec == Init /\ [][Next]_vars

(***************************************************************************)
(* Direct calls of the public methods updatePosition and canPlaceOrder, on *)
(* a freshly constructed manager, with arguments of the caller's choice.   *)
(***************************************************************************)
UnitConfigs == { Config(20, 1, 1, 210, 1), Config(20, 1, 1, 400, 3) }
UnitQuantities == {1, 2}
UnitPrices == {200, 210}

InitUnit == InitWith(UnitConfigs)

\* orderManager.updatePosition(quantity, price, isBuy)
UpdatePositionCall ==
    /\ nTicks < MaxCalls
    /\ \E quantity \in UnitQuantities, price \in UnitPrices, isBuy \in BOOLEAN :
          LET m == updatePosition(M, quantity, price, isBuy)
              rec == [Log("updatePosition", price, M) EXCEPT
                         !.quantity = quantity, !.post = m,
                         !.side = IF isBuy THEN "buy" ELSE "sell"]
          IN /\ Store(m)
             /\ fills' = Append(fills, rec)
             /\ last' = rec
    /\ nTicks' = nTicks + 1
    /\ UNCHANGED <<cfg, status>>

\* riskManager.canPlaceOrder(side, quantity, price)
CanPlaceOrderCall ==
    /\ \E side \in Sides, quantity \in UnitQuantities, price \in UnitPrices :
          last' = [Log("canPlaceOrder", price, M) EXCEPT
                      !.side = side, !.quantity = quantity,
                      !.result = canPlaceOrder(M, side, quantity, price)]
    /\ UNCHANGED <<cfg, gridOrders, position, currentEquity, realizedPnL,
                   orderCounter, status, nTicks, fills>>

NextUnit == UpdatePositionCall \/ CanPlaceOrderCall

SpecUnit == InitUnit /\ [][NextUnit]_vars

(***************************************************************************)
(* The grid planner of gridTrading applied to prices, spacings and counts  *)
(* of the caller's choice.                                                 *)
(***************************************************************************)
ComputeLevelsCall ==
    /\ \E price \in 0..MaxPlanPrice, spacing \in 1..MaxPlanSpacing,
          count \in 0..MaxPlanCount :
          last' = [Log("computeLevels", price, M) EXCEPT
                      !.spacing = spacing, !.count = count,
                      !.gridLevels = ComputeGridLevels(price, spacing, count)]
    /\ UNCHANGED <<cfg, gridOrders, position, currentEquity, realizedPnL,
                   orderCounter, status, nTicks, fills>>

NextPlanner == ComputeLevelsCall

SpecPlanner == InitUnit /\ [][NextPlanner]_vars

(***************************************************************************)
(* Properties.                                                             *)
(***************************************************************************)
\* Number of open orders of one side at one level of a book
OpenCount(book, l, side) ==
    IF l \notin DOMAIN book THEN 0
    ELSE Cardinality({i \in DOMAIN book[l] :
                         book[l][i].isOpen /\ book[l][i].side = side})

\* printTradingStats: totalRealizedPnL, the sum of the ledger's amounts
RECURSIVE SumOver(_, _)
SumOver(f, ids) ==
    IF ids = {} THEN I(0)
    ELSE LET k == CHOOSE x \in ids : \A y \in ids : x <= y
         IN NAdd(f[k], SumOver(f, ids \ {k}))

totalRealizedPnL == SumOver(realizedPnL, DOMAIN realizedPnL)

\* C1: after any sequence of ticks the order book holds at most one open order
\* for every (grid level, side) pair.
C1_OneOpenOrderPerLevelSide ==
    \A l \in DOMAIN gridOrders : \A side \in Sides :
        OpenCount(gridOrders, l, side) <= 1

\* A tick whose signal found its (level, side) already taken, at a level that
\* holds an open buy and an open sell.
C1_Witness ==
    /\ last.op = "tick"
    /\ \E i \in DOMAIN last.signals :
          /\ ~last.signals[i].should
          /\ OpenCount(gridOrders, last.signals[i].level, "buy") = 1
          /\ OpenCount(gridOrders, last.signals[i].level, "sell") = 1

\* C2: in every reachable state current equity equals initial equity plus the
\* sum of the realized PnL amounts recorded in the ledger.
C2_EquityIsInitialPlusLedger ==
    NEq(currentEquity, NAdd(I(cfg.initialEquity), totalRealizedPnL))

\* C3: for every buy fill applied, the new quantity position.quantity + quantity
\* used as the divisor of the average-price update is non-zero.
C3_BuyDivisorNonZero ==
    last.op = "tick" =>
        \A i \in DOMAIN last.calls :
            (last.calls[i].ok /\ last.calls[i].side = "buy") =>
                last.calls[i].pre.position.quantity + cfg.minOrderQuantity # 0

\* Number of orders a book holds
RECURSIVE TotalOrders(_)
TotalOrders(book) ==
    IF DOMAIN book = {} THEN 0
    ELSE LET l == CHOOSE x \in DOMAIN book : TRUE
         IN Len(book[l]) + TotalOrders([x \in DOMAIN book \ {l} |-> book[x]])

\* C4: after updateGrids with a ladder that excludes a tracked level, every
\* order formerly at that level is closed, the level has no entry in the book
\* and shouldPlaceOrderAtGrid(level, side) is true for both sides.
C4_VanishedLevelClosedAndFresh ==
    last.op = "tick" =>
        \A l \in DOMAIN last.pre.gridOrders :
            l \notin SeqRange(last.gridLevels) =>
                /\ l \in DOMAIN last.erased
                /\ Len(last.erased[l]) = Len(last.pre.gridOrders[l])
                /\ \A i \in DOMAIN last.erased[l] :
                      /\ ~last.erased[l][i].isOpen
                      /\ last.erased[l][i].orderId
                            = last.pre.gridOrders[l][i].orderId
                /\ l \notin DOMAIN last.afterGrids.gridOrders
                /\ l \notin DOMAIN gridOrders
                /\ \A side \in Sides :
                      shouldPlaceOrderAtGrid(last.afterGrids.gridOrders, l, side)

\* A tick whose ladder left out a level that held two open orders.
C4_Witness ==
    /\ last.op = "tick"
    /\ \E l \in DOMAIN last.pre.gridOrders :
          /\ l \notin SeqRange(last.gridLevels)
          /\ Len(last.pre.gridOrders[l]) = 2
          /\ \A i \in 1..2 : last.pre.gridOrders[l][i].isOpen

\* C5 as stated, read in its favour for the calls that append an order:
\* immediately after addOrder(side, price, level),
\* shouldPlaceOrderAtGrid(level, side) is false and
\* shouldPlaceOrderAtGrid(level, opposite side) is true.
C5_AfterAddOrderAsStated ==
    last.op = "tick" =>
        \A i \in DOMAIN last.calls :
            LET c == last.calls[i]
            IN c.ok =>
                 /\ ~shouldPlaceOrderAtGrid(c.post.gridOrders, c.level, c.side)
                 /\ shouldPlaceOrderAtGrid(c.post.gridOrders, c.level,
                                           Opposite(c.side))

\* C5 amended: after an addOrder(side, price, level) that the risk check
\* accepts, shouldPlaceOrderAtGrid(level, side) is false and
\* shouldPlaceOrderAtGrid(level, opposite side) is what it was before the call;
\* a call the risk check rejects leaves both answers as they were.
C5_AfterAddOrder ==
    last.op = "tick" =>
        \A i \in DOMAIN last.calls :
            LET c == last.calls[i]
                After(side) ==
                    shouldPlaceOrderAtGrid(c.post.gridOrders, c.level, side)
                Before(side) ==
                    shouldPlaceOrderAtGrid(c.pre.gridOrders, c.level, side)
            IN /\ c.ok => ~After(c.side)
               /\ ~c.ok => (After(c.side) <=> Before(c.side))
               /\ After(Opposite(c.side)) <=> Before(Opposite(c.side))

\* An accepted addOrder at a level that already held an open order of the
\* opposite side.
C5_Witness ==
    /\ last.op = "tick"
    /\ \E i \in DOMAIN last.calls :
          /\ last.calls[i].ok
          /\ OpenCount(last.calls[i].pre.gridOrders, last.calls[i].level,
                       Opposite(last.calls[i].side)) = 1
          /\ OpenCount(last.calls[i].post.gridOrders, last.calls[i].level,
                       last.calls[i].side) = 1

\* C6: in every tick at most one signal is produced, addOrder is invoked at
\* most once and at most one order is created, for the first and only pair of
\* adjacent levels with lower < price <= upper.
C6_AtMostOneSignalPerTick ==
    last.op = "tick" =>
        /\ Len(last.signals) <= 1
        /\ Len(last.calls) <= 1
        /\ TotalOrders(last.post.gridOrders)
              <= TotalOrders(last.afterGrids.gridOrders) + 1
        /\ \A i \in DOMAIN last.signals :
              LET s == last.signals[i]
              IN /\ s.lower < last.price /\ last.price <= s.upper
                 /\ \A j \in 1..(Len(last.gridLevels) - 1) :
                       (last.gridLevels[j] < last.price
                          /\ last.price <= last.gridLevels[j + 1])
                       => (last.gridLevels[j] = s.lower
                             /\ last.gridLevels[j + 1] = s.upper)

\* A tick over a five-level ladder that created exactly one order.
C6_Witness ==
    /\ last.op = "tick"
    /\ Len(last.gridLevels) = 5
    /\ Len(last.calls) = 1
    /\ last.calls[1].ok
    /\ TotalOrders(last.post.gridOrders)
          = TotalOrders(last.afterGrids.gridOrders) + 1

\* The part of C7 that holds as stated: an order is appended and a fill applied
\* in a tick only through an addOrder call made when shouldPlaceOrderAtGrid was
\* true and canPlaceOrder accepted.
C7_OrderOnlyWhenApproved ==
    /\ (TotalOrders(last.post.gridOrders)
            # TotalOrders(last.afterGrids.gridOrders)
          \/ last.post.gridOrders # last.afterGrids.gridOrders
          \/ last.post.position # last.pre.position
          \/ last.post.currentEquity # last.pre.currentEquity
          \/ last.post.realizedPnL # last.pre.realizedPnL
          \/ last.post.orderCounter # last.pre.orderCounter)
       => \E i \in DOMAIN last.calls :
             LET c == last.calls[i]
             IN /\ c.ok
                /\ shouldPlaceOrderAtGrid(c.pre.gridOrders, c.level, c.side)
                /\ canPlaceOrder(c.pre, c.side, cfg.minOrderQuantity, c.price)
    /\ \A i \in DOMAIN last.calls :
          ~last.calls[i].ok => last.calls[i].post = last.calls[i].pre

\* Some addOrder call of the tick was rejected by the risk check.
RiskRejected == \E i \in DOMAIN last.calls : ~last.calls[i].ok

\* C7 as stated: an order is appended and a fill applied only when
\* shouldPlaceOrderAtGrid is true and the risk check approves; when the risk
\* check rejects, the tick creates no order and leaves the book, the position,
\* the equity, the ledger and the order-id counter unchanged.
C7_RejectedTickAsStated ==
    last.op = "tick" =>
        /\ C7_OrderOnlyWhenApproved
        /\ RiskRejected =>
              /\ TotalOrders(last.post.gridOrders)
                    <= TotalOrders(last.afterGrids.gridOrders)
              /\ gridOrders = last.pre.gridOrders
              /\ position = last.pre.position
              /\ currentEquity = last.pre.currentEquity
              /\ realizedPnL = last.pre.realizedPnL
              /\ orderCounter = last.pre.orderCounter

\* C7 amended: as C7, except that a tick whose order the risk check rejects
\* leaves the book as its own updateGrids step left it (the entries of levels
\* outside the new ladder are still closed and erased) instead of unchanged.
C7_RejectedTick ==
    last.op = "tick" =>
        /\ C7_OrderOnlyWhenApproved
        /\ RiskRejected =>
              /\ TotalOrders(last.post.gridOrders)
                    <= TotalOrders(last.afterGrids.gridOrders)
              /\ gridOrders
                    = [l \in DOMAIN last.pre.gridOrders
                                \cap SeqRange(last.gridLevels) |->
                          last.pre.gridOrders[l]]
              /\ position = last.pre.position
              /\ currentEquity = last.pre.currentEquity
              /\ realizedPnL = last.pre.realizedPnL
              /\ orderCounter = last.pre.orderCounter

\* A tick whose order the risk check rejected after updateGrids had erased a
\* level that held an order.
C7_Witness ==
    /\ last.op = "tick"
    /\ RiskRejected
    /\ DOMAIN last.erased # {}
    /\ gridOrders # last.pre.gridOrders

\* C8: canPlaceOrder returns false exactly when quantity > maxPositionSize or
\* quantity * price > currentEquity, true otherwise, for both sides, and
\* changes no state.
C8_CanPlaceExactly ==
    last.op = "canPlaceOrder" =>
        /\ last.result
              = ~(\/ last.quantity > cfg.maxPositionSize
                  \/ NGt(I(last.quantity * last.price), currentEquity))
        /\ M = last.pre

\* canPlaceOrder accepted an order whose cost is exactly the equity, after a
\* sell had changed the equity.
C8_Witness ==
    /\ last.op = "canPlaceOrder"
    /\ last.result
    /\ currentEquity = I(last.quantity * last.price)
    /\ currentEquity # I(cfg.initialEquity)

\* C9: for price >= 0, spacing > 0 and count >= 0 the ladder has exactly
\* 2*count+1 levels, is strictly increasing with common difference spacing, and
\* its middle element is the multiple of spacing nearest to price.
C9_LadderShape ==
    last.op = "computeLevels" =>
        LET L == last.gridLevels
            mid == L[last.count + 1]
        IN /\ Len(L) = 2 * last.count + 1
           /\ \A i \in 1..(Len(L) - 1) :
                 L[i] < L[i + 1] /\ L[i + 1] - L[i] = last.spacing
           /\ mid % last.spacing = 0
           /\ \A k \in 0..(last.price + 1) :
                 Abs(last.price - mid) <= Abs(last.price - k * last.spacing)

\* A five-level ladder for a price halfway between two multiples of the
\* spacing, rounded up.
C9_Witness ==
    /\ last.op = "computeLevels"
    /\ last.count = 2
    /\ Len(last.gridLevels) = 5
    /\ 2 * (last.gridLevels[3] - last.price) = last.spacing

\* C10: after two buys of q1, q2 at p1, p2 from an empty position the average
\* price is (q1*p1 + q2*p2)/(q1 + q2); a following sell of q at p3 realizes
\* (p3 - avg)*q, reduces the quantity by q and leaves the average unchanged.
C10_FillFormulas ==
    (Len(fills) >= 2 /\ fills[1].side = "buy" /\ fills[2].side = "buy") =>
        LET q1 == fills[1].quantity
            q2 == fills[2].quantity
            avg == Norm(q1 * fills[1].price + q2 * fills[2].price, q1 + q2)
        IN /\ fills[2].post.position.avgPrice = avg
           /\ fills[2].post.position.quantity = q1 + q2
           /\ (Len(fills) >= 3 /\ fills[3].side = "sell") =>
                 LET q == fills[3].quantity
                     pnl == Norm((fills[3].price * avg.d - avg.n) * q, avg.d)
                     post == fills[3].post
                 IN /\ post.position.avgPrice = avg
                    /\ post.position.quantity = q1 + q2 - q
                    /\ DOMAIN post.realizedPnL = {post.orderCounter}
                    /\ post.realizedPnL[post.orderCounter] = pnl
                    /\ post.currentEquity
                          = NAdd(fills[3].pre.currentEquity, pnl)

\* Two buys of different quantities at different prices, then a sell.
C10_Witness ==
    /\ Len(fills) = 3
    /\ fills[1].side = "buy" /\ fills[2].side = "buy" /\ fills[3].side = "sell"
    /\ fills[1].quantity # fills[2].quantity
    /\ fills[1].price # fills[2].price
    /\ position.quantity = fills[1].quantity + fills[2].quantity
                              - fills[3].quantity

\* C11: after any sequence of ticks starting from an empty position, the
\* position quantity stays >= 0.
C11_QuantityNeverNegative == position.quantity >= 0

\* C12: whenever the price source fails in a tick (transport failure,
\* unparsable response, or a response without a usable price field) the error
\* is caught, the book, position, equity and ledger are left unchanged, and
\* the loop proceeds to the next tick.
C12_FetchFailureNotFatal ==
    last.op \in CaughtFailures \cup UncaughtFailures =>
        /\ status = "running"
        /\ M = last.pre

\* std::to_string of a counter value n >= 0, as its sequence of decimal digits
RECURSIVE to_string(_)
to_string(n) ==
    IF n < 10 THEN <<n>> ELSE Append(to_string(n \div 10), n % 10)

\* generateOrderId: "ORDER_" + std::to_string(n)
OrderIdString(n) == <<"ORDER_">> \o to_string(n)

\* The ids of the orders a book holds
BookIds(book) ==
    UNION {{book[l][i].orderId : i \in DOMAIN book[l]} : l \in DOMAIN book}

\* C13: every identifier the generator produces (for orders and for ledger
\* entries) is strictly greater, as a counter value, than all produced before,
\* so no two orders and no two ledger entries share an id and no ledger entry
\* is overwritten.
C13_IdsFreshAndIncreasing ==
    /\ Cardinality(BookIds(gridOrders)) = TotalOrders(gridOrders)
    /\ BookIds(gridOrders) \cap DOMAIN realizedPnL = {}
    /\ \A id \in BookIds(gridOrders) \cup DOMAIN realizedPnL :
          1 <= id /\ id <= orderCounter
    /\ \A a, b \in 1..orderCounter :
          a # b => OrderIdString(a) # OrderIdString(b)
    /\ last.op = "tick" =>
          \A i \in DOMAIN last.calls :
              LET c == last.calls[i]
                  old == BookIds(c.pre.gridOrders) \cup DOMAIN c.pre.realizedPnL
                  new == (BookIds(c.post.gridOrders)
                             \cup DOMAIN c.post.realizedPnL) \ old
              IN c.ok =>
                   /\ \A x \in new : \A y \in old : x > y
                   /\ \A x \in new : x > c.pre.orderCounter
                   /\ Cardinality(new) = IF c.side = "sell" THEN 2 ELSE 1
                   /\ \A k \in DOMAIN c.pre.realizedPnL :
                         /\ k \in DOMAIN c.post.realizedPnL
                         /\ c.post.realizedPnL[k] = c.pre.realizedPnL[k]

\* A sell that took two fresh ids while the ledger and the book already held
\* entries.
C13_Witness ==
    /\ last.op = "tick"
    /\ \E i \in DOMAIN last.calls :
          /\ last.calls[i].ok
          /\ last.calls[i].side = "sell"
          /\ DOMAIN last.calls[i].pre.realizedPnL # {}
          /\ TotalOrders(last.calls[i].pre.gridOrders) >= 1
    /\ Cardinality(DOMAIN realizedPnL) >= 2

\* The pairs of adjacent levels of ladder L with lower < price <= upper
Brackets(price, L) ==
    {j \in 1..(Len(L) - 1) : L[j] < price /\ price <= L[j + 1]}

\* C14: with (lower, upper) the adjacent levels such that lower < price <= upper
\* and tolerance = 0.1*spacing, the tick signals a buy at lower if
\* |price - lower| < tolerance, otherwise a sell at upper if
\* |price - upper| < tolerance, otherwise nothing; spacing 10, count 1 and
\* price 100.5 yield a buy signal at level 100.
C14_CrossingDecision ==
    last.op = "tick" =>
        LET L == last.gridLevels
            p == last.price
            S == cfg.gridSpacing
            Is(side, level) ==
                /\ Len(last.signals) = 1
                /\ last.signals[1].side = side
                /\ last.signals[1].level = level
        IN /\ Brackets(p, L) = {} => last.signals = <<>>
           /\ \A j \in Brackets(p, L) :
                 IF 10 * Abs(p - L[j]) < S THEN Is("buy", L[j])
                 ELSE IF 10 * Abs(p - L[j + 1]) < S THEN Is("sell", L[j + 1])
                 ELSE last.signals = <<>>
           /\ (S = 20 /\ cfg.gridCount = 1 /\ p = 201) =>
                 (L = <<180, 200, 220>> /\ Is("buy", 200))

\* The tick at price 100.5 with spacing 10 and count 1, whose buy signal at
\* level 100 became an order.
C14_Witness ==
    /\ last.op = "tick"
    /\ cfg.gridSpacing = 20 /\ cfg.gridCount = 1 /\ last.price = 201
    /\ Len(last.signals) = 1
    /\ last.signals[1].side = "buy" /\ last.signals[1].level = 200
    /\ Len(last.calls) = 1 /\ last.calls[1].ok

\* The tick of the boundary scenario: spacing 10, count 1, price 105
BoundaryTick ==
    /\ last.op = "tick"
    /\ cfg.gridSpacing = 20 /\ cfg.gridCount = 1 /\ last.price = 210

\* No signal and no order in the latest tick
NoSignalNoOrder ==
    /\ last.signals = <<>>
    /\ last.calls = <<>>
    /\ last.post = last.afterGrids
    /\ orderCounter = last.pre.orderCounter

\* C15 as stated: with spacing 10, count 1 and price 105 the levels are
\* [90, 100, 110], the price lies in (100, 110], and the tick produces no
\* signal and places no order.
C15_BoundaryScenarioAsStated ==
    BoundaryTick =>
        /\ last.gridLevels = <<180, 200, 220>>
        /\ 200 < last.price /\ last.price <= 220
        /\ NoSignalNoOrder

\* C15 amended: with spacing 10, count 1 and price 105 the levels are
\* [100, 110, 120] (std::round takes 10.5 to 11), the price lies in (100, 110],
\* and the tick produces no signal and places no order.
C15_BoundaryScenario ==
    BoundaryTick =>
        /\ last.gridLevels = <<200, 220, 240>>
        /\ Brackets(last.price, last.gridLevels) = {1}
        /\ 200 < last.price /\ last.price <= 220
        /\ NoSignalNoOrder

\* The boundary tick taken while the book holds an order.
C15_Witness ==
    /\ BoundaryTick
    /\ TotalOrders(gridOrders) >= 1

\* C16: updateGrids leaves every tracked level that is also in the new ladder
\* untouched (its order list and each order's open flag, side, price and
\* quantity), so open orders persist across ticks; it also leaves position,
\* equity and ledger unchanged.
C16_KeptLevelsUntouched ==
    last.op = "tick" =>
        /\ \A l \in DOMAIN last.pre.gridOrders :
              l \in SeqRange(last.gridLevels) =>
                  /\ l \in DOMAIN last.afterGrids.gridOrders
                  /\ last.afterGrids.gridOrders[l] = last.pre.gridOrders[l]
                  /\ \A i \in DOMAIN last.pre.gridOrders[l] :
                        /\ i \in DOMAIN gridOrders[l]
                        /\ gridOrders[l][i] = last.pre.gridOrders[l][i]
        /\ last.afterGrids.position = last.pre.position
        /\ last.afterGrids.currentEquity = last.pre.currentEquity
        /\ last.afterGrids.realizedPnL = last.pre.realizedPnL
        /\ last.afterGrids.orderCounter = last.pre.orderCounter

\* A tick whose ladder kept one level holding an open order and dropped
\* another.
C16_Witness ==
    /\ last.op = "tick"
    /\ DOMAIN last.erased # {}
    /\ \E l \in DOMAIN last.pre.gridOrders :
          /\ l \in SeqRange(last.gridLevels)
          /\ Len(last.pre.gridOrders[l]) >= 1
          /\ last.pre.gridOrders[l][1].isOpen
          /\ gridOrders[l][1].isOpen

(***************************************************************************)
(* Direct calls of addOrder and updatePosition with a quantity or a price  *)
(* that is zero or negative (the code validates neither the configuration  *)
(* nor its arguments).                                                     *)
(***************************************************************************)
InvalidConfigs ==
    { Config(20, 1, 0, 2000, 5), Config(20, 1, -1, 2000, 5),
      Config(20, 1, 1, 2000, 5) }

InitInvalid == InitWith(InvalidConfigs)

\* orderManager.addOrder(side, price, gridLevel) with min_order_quantity <= 0
\* or price <= 0
InvalidOrderCall ==
    /\ nTicks < MaxInvalidCalls
    /\ \E side \in Sides, price \in {201, 0} :
          /\ cfg.minOrderQuantity <= 0 \/ price <= 0
          /\ LET r == addOrder(M, side, price, BaseGrid(price, cfg.gridSpacing))
             IN /\ Store(r.m)
                /\ last' = [Log("invalidOrder", price, M) EXCEPT
                               !.side = side, !.result = r.ok, !.post = r.m,
                               !.quantity = cfg.minOrderQuantity]
    /\ nTicks' = nTicks + 1
    /\ UNCHANGED <<cfg, status, fills>>

\* orderManager.updatePosition(quantity, price, isBuy) with quantity <= 0 or
\* price <= 0
InvalidFillCall ==
    /\ nTicks < MaxInvalidCalls
    /\ \E quantity \in {-1, 0, 1}, price \in {-200, 0, 200}, isBuy \in BOOLEAN :
          /\ quantity <= 0 \/ price <= 0
          /\ LET m == updatePosition(M, quantity, price, isBuy)
             IN /\ Store(m)
                /\ last' = [Log("invalidFill", price, M) EXCEPT
                               !.quantity = quantity, !.post = m,
                               !.result = TRUE,
                               !.side = IF isBuy THEN "buy" ELSE "sell"]
    /\ nTicks' = nTicks + 1
    /\ UNCHANGED <<cfg, status, fills>>

NextInvalid == InvalidOrderCall \/ InvalidFillCall

SpecInvalid == InitInvalid /\ [][NextInvalid]_vars

\* C17: a fill with zero or negative quantity or price is rejected and mutates
\* no state: the book, the position, the equity and the ledger are unchanged
\* after such an order attempt.
C17_InvalidOrderRejected ==
    last.op \in {"invalidOrder", "invalidFill"} =>
        /\ ~last.result
        /\ M = last.pre

\* C18: the position quantity never exceeds the configured max_position_size
\* after any sequence of ticks (every order placed has passed the risk check).
C18_PositionWithinLimit == position.quantity <= cfg.maxPositionSize

\* C19: at the end of every tick every level tracked in the book belongs to
\* that tick's ladder and every stored order is open, so the book never holds
\* more than 2*count+1 levels nor more than two orders per level.
C19_BookWithinLadder ==
    /\ last.op = "tick" => DOMAIN gridOrders \subseteq SeqRange(last.gridLevels)
    /\ \A l \in DOMAIN gridOrders :
          /\ Len(gridOrders[l]) <= 2
          /\ \A i \in DOMAIN gridOrders[l] : gridOrders[l][i].isOpen
    /\ Cardinality(DOMAIN gridOrders) <= 2 * cfg.gridCount + 1

\* A tick that dropped a level and ended with a level holding two open orders.
C19_Witness ==
    /\ last.op = "tick"
    /\ DOMAIN last.erased # {}
    /\ \E l \in DOMAIN gridOrders :
          /\ Len(gridOrders[l]) = 2
          /\ gridOrders[l][1].isOpen /\ gridOrders[l][2].isOpen

\* C20: every order created is placed at the base (middle) level of its tick's
\* ladder with a price within tolerance of that level: a buy has
\* gridLevel < price < gridLevel + 0.1*spacing, a sell has
\* gridLevel - 0.1*spacing < price <= gridLevel; with count = 0 no order is
\* ever created.
C20_OrdersAtBaseWithinTolerance ==
    /\ \A l \in DOMAIN gridOrders : \A i \in DOMAIN gridOrders[l] :
          LET o == gridOrders[l][i]
          IN /\ o.gridLevel = l
             /\ o.side = "buy" =>
                   (l < o.price /\ 10 * (o.price - l) < cfg.gridSpacing)
             /\ o.side = "sell" =>
                   (10 * (l - o.price) < cfg.gridSpacing /\ o.price <= l)
    /\ last.op = "tick" =>
          /\ \A i \in DOMAIN last.signals :
                last.signals[i].level = last.gridLevels[cfg.gridCount + 1]
          /\ \A i \in DOMAIN last.calls :
                LET c == last.calls[i]
                IN /\ c.price = last.price
                   /\ c.level = last.gridLevels[cfg.gridCount + 1]
                   /\ c.side = "buy" =>
                         (c.level < c.price
                            /\ 10 * (c.price - c.level) < cfg.gridSpacing)
                   /\ c.side = "sell" =>
                         (10 * (c.level - c.price) < cfg.gridSpacing
                            /\ c.price <= c.level)
    /\ cfg.gridCount = 0 => (orderCounter = 0 /\ gridOrders = <<>>)

\* A tick over a five-level ladder that sold at the middle level while the
\* book held an earlier order.
C20_Witness ==
    /\ last.op = "tick"
    /\ cfg.gridCount = 2
    /\ Len(last.calls) = 1
    /\ last.calls[1].ok /\ last.calls[1].side = "sell"
    /\ last.calls[1].level = last.gridLevels[3]
    /\ TotalOrders(gridOrders) >= 2

====
